---------------------------- MODULE Spec2Model ----------------------------
(***************************************************************************)
(* Reverse-tunnel client of the circonus agent (internal/reverse/main.go). *)
(*                                                                         *)
(* The model has two layers, as the code has:                              *)
(*   - the supervisor: Start and its restart loop (configure, connect,     *)
(*     backoff, attempt counting);                                         *)
(*   - the session: reverse(), the frame loop on one broker connection     *)
(*     (readHeader, readMessage, dispatch, fetchMetricData,                *)
(*     sendMetricData, buildFrame).                                        *)
(*                                                                         *)
(* Bytes are integers 0..255.  Inbound frames are byte sequences on the    *)
(* variable wire.  The body returned by the local endpoint can be longer   *)
(* than 65529 bytes, so it is represented by its length, and a piece of it *)
(* by the half-open range of body positions it holds: byte i of the body   *)
(* is "position i", all positions distinct.  A payload [from, len] stands  *)
(* for body[from .. from+len-1].                                           *)
(***************************************************************************)
EXTENDS Integers, Sequences, FiniteSets, TLC

(***************************************************************************)
(* Program constants (main.go:33-41, 60-70).                               *)
(***************************************************************************)
maxPayloadLen == 65529
maxConnRetry == 10
configRetryLimit == 5
headerLen == 6
backoffs == <<2, 4, 6, 8, 16, 32, 60>>
maxAttempts == Len(backoffs) - 1

(***************************************************************************)
(* Bounds of the model.                                                    *)
(***************************************************************************)
\* a short read delivers 1..MaxShort bytes, or everything that is available
MaxShort == 2
\* the local endpoint's bodies span up to MaxChunks maximum payloads
MaxChunks == 2
\* connections leaked by failed introduction writes that the model follows
MaxLeaked == 1

(***************************************************************************)
(* Byte strings.                                                           *)
(***************************************************************************)
CONNECT == <<67, 79, 78, 78, 69, 67, 84>>
CONNECT_SP == <<67, 79, 78, 78, 69, 67, 84, 32>>
CLOSE == <<67, 76, 79, 83, 69>>
RESET == <<82, 69, 83, 69, 84>>
SHUTDOWN == <<83, 72, 85, 84, 68, 79, 87, 78>>
PING == <<80, 73, 78, 71>>
GET_ROOT == <<71, 69, 84, 32, 47, 32, 72, 84, 84, 80, 47, 49, 46, 48>>
ARG_X == <<120>>
EMPTY_JSON == <<123, 125>>

Min(a, b) == IF a < b THEN a ELSE b
Zeros(n) == [i \in 1..n |-> 0]
Take(s, k) == SubSeq(s, 1, k)
Drop(s, k) == SubSeq(s, k + 1, Len(s))

\* encoding/binary BigEndian
\* variant: the 16-bit word written low byte first
PutUint16_LittleEndian(v) ==
    <<v % 256, (v \div 256) % 256>>

PutUint16(v) == <<(v \div 256) % 256, v % 256>>
PutUint32(v) == <<(v \div 16777216) % 256, (v \div 65536) % 256, (v \div 256) % 256, v % 256>>
Uint16(d) == d[1] * 256 + d[2]
Uint32(d) == d[1] * 16777216 + d[2] * 65536 + d[3] * 256 + d[4]


(***************************************************************************)
(* State.                                                                  *)
(***************************************************************************)
VARIABLES
    reverseEnabled,       \* viper config.KeyReverse
    reverseMaxConnRetry,  \* the documented option --reverse-max-conn-retry
    pc,                   \* where the Start goroutine stands
    attempt,              \* Start's attempt counter
    reverseURL,           \* "nil" or "set"
    result,               \* what Start returned: "none" while it has not
    conn,                 \* the broker connection of the current attempt
    leaked,               \* broker connections opened and never closed
    cmd, arg,             \* reverse's accumulators
    hdr,                  \* header of the current frame
    wire,                 \* inbound bytes sent by the broker, not yet read
    data, offset,         \* sendMetricData's data and offset
    out,                  \* frames written in the current loop iteration
    argChannel,           \* channel of the frame that stored arg (0: none)
    cmdChannel,           \* channel of the frame that stored cmd (0: none)
    seen,                 \* the accumulators the switch of this iteration saw
    lastRead,             \* the last read on the broker connection
    connects,             \* channels whose last command frame was CONNECT, argument not yet received
    owed,                 \* channel of this iteration's argument frame if it completed a request (0: none)
    localConn,            \* the connection fetchMetricData made in this iteration
    fetchErr,             \* outcome of this iteration's fetchMetricData
    reqChannel,           \* channel of the frame whose arg was fetched (0: none)
    sinceDeadline,        \* blocking operations since SetDeadline
    exitReason,           \* why the last session ended ("none": it has not)
    delays,               \* delays slept since Start or the last session
    fails,                \* consecutive failed connects
    connected,            \* some connect() has succeeded
    introWritten,         \* the introduction line was written on the current connection
    reconfigured,         \* configure() ran since the last connect
    slept,                \* time.Sleep ran since the last connect
    lastEvent             \* the last supervisor event

supVars == <<reverseEnabled, reverseMaxConnRetry, pc, attempt, reverseURL, result,
             conn, leaked>>
sessVars == <<cmd, arg, hdr, wire, data, offset, out, argChannel, cmdChannel, seen,
              lastRead, connects, owed, localConn, fetchErr, reqChannel,
              sinceDeadline, exitReason>>
histVars == <<delays, fails, connected, introWritten, reconfigured, slept, lastEvent>>
vars == <<supVars, sessVars, histVars>>

\* header{} zero value
NoHeader == [channelID |-> 0, isCommand |-> FALSE, payloadLen |-> 0]
NoData == [src |-> "none", len |-> 0]
\* no frame stored in this iteration yet
NoSeen == [cmd |-> <<>>, arg |-> <<>>, cmdChannel |-> 0, argChannel |-> 0]
\* no read issued yet
NoRead == [size |-> 0, got |-> 0, len |-> 0, err |-> FALSE]

Init ==
    /\ reverseEnabled \in BOOLEAN
    /\ reverseMaxConnRetry \in {-1, maxConnRetry}
    /\ pc = "start"
    /\ attempt = 1
    /\ reverseURL = "nil"
    /\ result = "none"
    /\ conn = "none"
    /\ leaked = 0
    /\ cmd = <<>>
    /\ arg = <<>>
    /\ hdr = NoHeader
    /\ wire = <<>>
    /\ data = NoData
    /\ offset = 0
    /\ out = <<>>
    /\ argChannel = 0
    /\ cmdChannel = 0
    /\ seen = NoSeen
    /\ lastRead = NoRead
    /\ connects = {}
    /\ owed = 0
    /\ localConn = "none"
    /\ fetchErr = "none"
    /\ reqChannel = 0
    /\ sinceDeadline = 0
    /\ exitReason = "none"
    /\ delays = <<>>
    /\ fails = 0
    /\ connected = FALSE
    /\ introWritten = FALSE
    /\ reconfigured = FALSE
    /\ slept = FALSE
    /\ lastEvent = "none"

(***************************************************************************)
(* Supervisor: Start (main.go:51-143) and connect (main.go:145-173).       *)
(***************************************************************************)
\* main.go:97
NeedReconfig(url, a) == url = "nil" \/ a % configRetryLimit = 0

\* main.go:117
\* variant: the limit compared with > instead of >=
RetriesExhausted_Greater(a) ==
    a > maxConnRetry

RetriesExhausted(a) == a >= maxConnRetry

\* the delay capped one table entry early
BackoffDelay_Cap32(a) == backoffs[Min(a - 1, maxAttempts - 1) + 1]

\* main.go:131
BackoffDelay(a) == backoffs[Min(a - 1, maxAttempts) + 1]

\* main.go:52-55
StartDisabled ==
    /\ pc = "start"
    /\ ~reverseEnabled
    /\ pc' = "done"
    /\ result' = "nil"
    /\ lastEvent' = "disabled"
    /\ UNCHANGED <<reverseEnabled, reverseMaxConnRetry, attempt, reverseURL, conn, leaked>>
    /\ UNCHANGED sessVars
    /\ UNCHANGED <<delays, fails, connected, introWritten, reconfigured, slept>>

\* main.go:57-93: the initial configure()
StartConfigure(ok) ==
    /\ pc = "start"
    /\ reverseEnabled
    /\ IF ok
         THEN /\ reverseURL' = "set"
              /\ pc' = "loop"
              /\ result' = result
              /\ lastEvent' = "configured"
         ELSE /\ reverseURL' = "nil"
              /\ pc' = "done"
              /\ result' = "ConfigError"
              /\ lastEvent' = "config_err"
    /\ UNCHANGED <<reverseEnabled, reverseMaxConnRetry, attempt, conn, leaked>>
    /\ UNCHANGED sessVars
    /\ UNCHANGED <<delays, fails, connected, introWritten, reconfigured, slept>>

\* main.go:96-112: top of the restart loop when a reconfiguration is due
\* variant: the reconfiguration restarts the attempt count
Reconfigure_ResetAttempt(ok) ==
    /\ pc = "loop"
    /\ NeedReconfig(reverseURL, attempt)
    /\ reconfigured' = TRUE
    /\ attempt' = 1
    /\ IF ok
         THEN /\ reverseURL' = "set"
              /\ pc' = "connect"
              /\ result' = result
              /\ lastEvent' = "configured"
         ELSE /\ reverseURL' = "nil"
              /\ pc' = "done"
              /\ result' = "ConfigError"
              /\ lastEvent' = "config_err"
    /\ UNCHANGED <<reverseEnabled, reverseMaxConnRetry, conn, leaked>>
    /\ UNCHANGED sessVars
    /\ UNCHANGED <<delays, fails, connected, introWritten, slept>>

Reconfigure(ok) ==
    /\ pc = "loop"
    /\ NeedReconfig(reverseURL, attempt)
    /\ reconfigured' = TRUE
    /\ IF ok
         THEN /\ reverseURL' = "set"
              /\ pc' = "connect"
              /\ result' = result
              /\ lastEvent' = "configured"
         ELSE /\ reverseURL' = "nil"
              /\ pc' = "done"
              /\ result' = "ConfigError"
              /\ lastEvent' = "config_err"
    /\ UNCHANGED <<reverseEnabled, reverseMaxConnRetry, attempt, conn, leaked>>
    /\ UNCHANGED sessVars
    /\ UNCHANGED <<delays, fails, connected, introWritten, slept>>

\* main.go:116-124: connect() returned an error
\* variant: a failed connect goes straight back to the top of the loop
ConnectFailed_NoBackoff(a) ==
    IF RetriesExhausted(a)
      THEN /\ pc' = "done"
           /\ result' = "ExhaustedRetries"
      ELSE /\ pc' = "loop"
           /\ result' = result

ConnectFailed(a) ==
    IF RetriesExhausted(a)
      THEN /\ pc' = "done"
           /\ result' = "ExhaustedRetries"
      ELSE /\ pc' = "backoff"
           /\ result' = result

\* the attempt counter not reset on a successful connection
ConnectSucceeded_NoReset ==
    /\ attempt' = attempt
    /\ pc' = "hdr"
    /\ conn' = "open"
    /\ cmd' = <<>>
    /\ arg' = <<>>

\* main.go:125-127: connect() returned a connection; reverse() starts
ConnectSucceeded ==
    /\ attempt' = 1
    /\ pc' = "hdr"
    /\ conn' = "open"
    /\ cmd' = <<>>
    /\ arg' = <<>>

\* main.go:114-128 with connect(), main.go:145-173
Connect(outcome) ==
    /\ \/ pc = "connect"
       \/ pc = "loop" /\ ~NeedReconfig(reverseURL, attempt)
    /\ reconfigured' = FALSE
    /\ slept' = FALSE
    /\ CASE outcome = "dial_err" ->
              /\ ConnectFailed(attempt)
              /\ fails' = fails + 1
              /\ lastEvent' = "dial_err"
              /\ introWritten' = FALSE
              /\ UNCHANGED <<attempt, conn, leaked, cmd, arg, sinceDeadline, delays, connected>>
         [] outcome = "intro_err" ->
              \* the connection was dialled; the error return does not close it
              /\ leaked < MaxLeaked
              /\ ConnectFailed(attempt)
              /\ leaked' = leaked + 1
              /\ sinceDeadline' = 1
              /\ fails' = fails + 1
              /\ lastEvent' = "intro_err"
              /\ introWritten' = FALSE
              /\ UNCHANGED <<attempt, conn, cmd, arg, delays, connected>>
         [] outcome = "ok" ->
              /\ ConnectSucceeded
              /\ sinceDeadline' = 1
              /\ fails' = 0
              /\ connected' = TRUE
              /\ delays' = <<>>
              /\ lastEvent' = "connected"
              /\ introWritten' = TRUE
              /\ UNCHANGED <<result, leaked>>
    /\ UNCHANGED <<reverseEnabled, reverseMaxConnRetry, reverseURL>>
    /\ UNCHANGED <<hdr, wire, data, offset, out, argChannel, cmdChannel, seen, lastRead,
                   connects, owed, localConn, fetchErr, reqChannel, exitReason>>

\* main.go:130-137
Backoff ==
    /\ pc = "backoff"
    /\ delays' = Append(delays, BackoffDelay(attempt))
    /\ attempt' = attempt + 1
    /\ slept' = TRUE
    /\ pc' = "loop"
    /\ lastEvent' = "slept"
    \* the ended session's locals are gone
    /\ hdr' = NoHeader
    /\ out' = <<>>
    /\ data' = NoData
    /\ fetchErr' = "none"
    /\ reqChannel' = 0
    /\ seen' = NoSeen
    /\ lastRead' = NoRead
    /\ owed' = 0
    /\ localConn' = "none"
    /\ introWritten' = FALSE
    /\ exitReason' = "none"
    /\ conn' = "none"
    /\ UNCHANGED <<reverseEnabled, reverseMaxConnRetry, reverseURL, result, leaked>>
    /\ UNCHANGED <<cmd, arg, wire, offset, argChannel, cmdChannel, connects, sinceDeadline>>
    /\ UNCHANGED <<fails, connected, reconfigured>>

(***************************************************************************)
(* Frame codec: buildFrame (main.go:296-309), readHeader (main.go:347-367) *)
(* and the reads under it (main.go:370-394).                               *)
(***************************************************************************)
\* A piece of the data to send: positions from .. from+len-1 of data d.
Chunk(d, from, n) == [src |-> d.src, from |-> from, len |-> n]

\* main.go:296-309.  Len of the frame is headerLen + buff.len.
\* variant: the length field declares the size of the whole frame
buildFrame_LenOfFrame(channelID, buff) ==
    [header |-> PutUint16(channelID % 32768) \o PutUint32(buff.len + headerLen),
     payload |-> buff]

buildFrame(channelID, buff) ==
    [header |-> PutUint16(channelID % 32768) \o PutUint32(buff.len),
     payload |-> buff]

FrameLen(frame) == Len(frame.header) + frame.payload.len

\* main.go:382-394.  One Read on a LimitReader of size bytes: k bytes were
\* delivered (k = 0: Read returned 0 bytes and an error).  The buffer
\* returned always has size bytes.
readBytes(w, size, k) ==
    IF k = 0
      THEN [err |-> TRUE, data |-> <<>>, rest |-> w]
      ELSE [err |-> FALSE, data |-> Take(w, k) \o Zeros(size - k), rest |-> Drop(w, k)]

\* main.go:370-379
readMessage(w, size, k) ==
    LET r == readBytes(w, size, k)
    IN  IF r.err
          THEN r
          ELSE IF Len(r.data) # size
                 THEN [err |-> TRUE, data |-> <<>>, rest |-> r.rest]
                 ELSE r

\* main.go:354-357
decodeHeader(d) ==
    LET encodedChannelID == Uint16(d)
    IN  [channelID |-> encodedChannelID % 32768,
         isCommand |-> encodedChannelID >= 32768,
         payloadLen |-> Uint32(Drop(d, 2))]

\* main.go:347-367
readHeader(w, k) ==
    LET r == readMessage(w, headerLen, k)
    IN  IF r.err
          THEN [err |-> TRUE, hdr |-> NoHeader, data |-> r.data, rest |-> r.rest]
          ELSE [err |-> FALSE, hdr |-> decodeHeader(r.data), data |-> r.data, rest |-> r.rest]

\* What one Read of up to size bytes can deliver from the bytes in flight:
\* 0 stands for an error with nothing read.  A LimitReader of 0 bytes
\* returns (0, EOF) without reading.
Delivered(w, size) ==
    IF size = 0
      THEN {0}
      ELSE {0} \cup {k \in 1..Min(size, Len(w)) : k <= MaxShort \/ k = Min(size, Len(w))}

(***************************************************************************)
(* The broker's side of the wire.                                          *)
(***************************************************************************)
Channels == {3, 7}
CommandPayloads == {CONNECT, CONNECT_SP, CLOSE, RESET, SHUTDOWN, PING, <<>>}
ArgPayloads == {GET_ROOT, ARG_X, <<>>}
OversizeLens == {maxPayloadLen + 1, 70000}

\* the bytes of a frame as the broker writes it
BrokerFrame(ch, isCmd, declared, payload) ==
    PutUint16(ch + (IF isCmd THEN 32768 ELSE 0)) \o PutUint32(declared) \o payload

BrokerFrames ==
    {BrokerFrame(ch, TRUE, Len(p), p) : ch \in Channels, p \in CommandPayloads}
    \cup {BrokerFrame(ch, FALSE, Len(p), p) : ch \in Channels, p \in ArgPayloads}
    \cup {BrokerFrame(ch, FALSE, n, <<>>) : ch \in Channels, n \in OversizeLens}

\* the broker sends its next frame once the previous one has been read
BrokerSend(f) ==
    /\ pc = "hdr"
    /\ wire = <<>>
    /\ wire' = f
    /\ UNCHANGED supVars
    /\ UNCHANGED <<cmd, arg, hdr, data, offset, out, argChannel, cmdChannel, seen,
                   lastRead, connects, owed, localConn, fetchErr, reqChannel,
                   sinceDeadline, exitReason>>
    /\ UNCHANGED histVars

(***************************************************************************)
(* Session: reverse (main.go:175-269), sendMetricData (main.go:272-288),   *)
(* fetchMetricData (main.go:312-344).                                      *)
(***************************************************************************)
\* the bodies the local endpoint returns, by length
BodyLens ==
    {0, 1, 2, 7}
    \cup UNION {{n * maxPayloadLen - headerLen, n * maxPayloadLen, n * maxPayloadLen + 1,
                 n * maxPayloadLen + headerLen, n * maxPayloadLen + headerLen + 1}
                : n \in 1..MaxChunks}

FetchErrors == {"dial_err", "write_err", "read_err"}

\* the limit taken for the whole frame instead of the payload
Oversized_WholeFrame(n) == n > maxPayloadLen + headerLen

\* main.go:193
Oversized(n) == n > maxPayloadLen

\* the restart loop re-entered without the backoff
SessionExit_NoBackoff(reason) ==
    /\ exitReason' = reason
    /\ conn' = "closed"
    /\ pc' = "loop"
    /\ cmd' = <<>>
    /\ arg' = <<>>
    /\ wire' = <<>>
    /\ offset' = 0
    /\ argChannel' = 0
    /\ cmdChannel' = 0
    /\ connects' = {}
    /\ sinceDeadline' = 0
    /\ lastEvent' = "session_exit"

\* main.go:176 with every return of reverse: the deferred conn.Close(), then
\* Start goes on at main.go:130
SessionExit(reason) ==
    /\ exitReason' = reason
    /\ conn' = "closed"
    /\ pc' = "backoff"
    /\ cmd' = <<>>
    /\ arg' = <<>>
    /\ wire' = <<>>
    /\ offset' = 0
    /\ argChannel' = 0
    /\ cmdChannel' = 0
    /\ connects' = {}
    /\ sinceDeadline' = 0
    /\ lastEvent' = "session_exit"

\* variant: the argument test of the CONNECT case inverted
Dispatch_EmptyArg(c, a) ==
    CASE c = CONNECT /\ Len(a) = 0 -> "fetch"
      [] c = CONNECT /\ Len(a) > 0 -> "wait"
      [] c \in {CLOSE, RESET, SHUTDOWN} -> "clear"
      [] OTHER -> "unknown"

\* variant: CLOSE, RESET and SHUTDOWN fall through to the default case
Dispatch_NoClear(c, a) ==
    CASE c = CONNECT /\ Len(a) > 0 -> "fetch"
      [] c = CONNECT /\ Len(a) = 0 -> "wait"
      [] OTHER -> "unknown"

\* main.go:224-267: what the switch does with the accumulators
Dispatch(c, a) ==
    CASE c = CONNECT /\ Len(a) > 0 -> "fetch"
      [] c = CONNECT /\ Len(a) = 0 -> "wait"
      [] c \in {CLOSE, RESET, SHUTDOWN} -> "clear"
      [] OTHER -> "unknown"

\* main.go:274
ChunkLen(len, off) == Min(len - off, maxPayloadLen)

\* main.go:276-280: offset after a write that returned sentBytes = len(frame)
NextOffset(off, frame) == off + FrameLen(frame)

\* no data substituted for a failed fetch
FallbackData_Empty == [src |-> "fallback", len |-> 0]

\* main.go:239
FallbackData == [src |-> "fallback", len |-> Len(EMPTY_JSON)]

\* main.go:180-198: SetDeadline, readHeader, the oversize check
ReadHeader(k) ==
    /\ pc = "hdr"
    /\ k \in Delivered(wire, headerLen)
    /\ out' = <<>>
    /\ data' = NoData
    /\ fetchErr' = "none"
    /\ reqChannel' = 0
    /\ seen' = NoSeen
    /\ owed' = 0
    /\ localConn' = "none"
    /\ LET r == readHeader(wire, k)
       IN  /\ lastRead' = [size |-> headerLen, got |-> k, len |-> Len(r.data), err |-> r.err]
           /\ IF r.err
               THEN /\ SessionExit("header")
                    /\ hdr' = hdr
               ELSE /\ hdr' = r.hdr
                    /\ IF Oversized(r.hdr.payloadLen)
                         THEN SessionExit("oversize")
                         ELSE /\ pc' = "msg"
                              /\ wire' = r.rest
                              /\ sinceDeadline' = 1
                              /\ UNCHANGED <<cmd, arg, conn, offset, argChannel,
                                             cmdChannel, connects, exitReason, lastEvent>>
    /\ UNCHANGED <<reverseEnabled, reverseMaxConnRetry, attempt, reverseURL, result, leaked>>
    /\ UNCHANGED <<delays, fails, connected, introWritten, reconfigured, slept>>

\* main.go:200-267: readMessage, store, dispatch
ReadMessage ==
    /\ pc = "msg"
    /\ \E k \in Delivered(wire, hdr.payloadLen) :
       LET r == readMessage(wire, hdr.payloadLen, k)
           cmd1 == IF hdr.isCommand THEN r.data ELSE cmd
           arg1 == IF hdr.isCommand THEN arg ELSE r.data
           act == Dispatch(cmd1, arg1)
           cmdCh1 == IF hdr.isCommand THEN hdr.channelID ELSE cmdChannel
           argCh1 == IF hdr.isCommand THEN argChannel ELSE hdr.channelID
       IN  /\ lastRead' = [size |-> hdr.payloadLen, got |-> k, len |-> Len(r.data),
                           err |-> r.err]
           /\ IF r.err
                THEN /\ SessionExit("message")
                     /\ seen' = seen
                     /\ owed' = owed
                ELSE /\ wire' = r.rest
                     /\ sinceDeadline' = sinceDeadline + 1
                     /\ seen' = [cmd |-> cmd1, arg |-> arg1, cmdChannel |-> cmdCh1,
                                 argChannel |-> argCh1]
                     /\ argChannel' = argCh1
                     /\ arg' = arg1
                     /\ cmd' = IF act = "clear" THEN <<>> ELSE cmd1
                     /\ cmdChannel' = IF act = "clear" THEN 0 ELSE cmdCh1
                     /\ connects' = IF hdr.isCommand /\ r.data = CONNECT
                                      THEN connects \cup {hdr.channelID}
                                      ELSE connects \ {hdr.channelID}
                     /\ owed' = IF ~hdr.isCommand /\ hdr.channelID \in connects
                                       /\ hdr.payloadLen > 0
                                  THEN hdr.channelID
                                  ELSE 0
                     /\ pc' = IF act = "fetch" THEN "fetch" ELSE "hdr"
                     /\ UNCHANGED <<conn, offset, exitReason, lastEvent>>
    /\ UNCHANGED <<reverseEnabled, reverseMaxConnRetry, attempt, reverseURL, result, leaked>>
    /\ UNCHANGED <<hdr, data, out, localConn, fetchErr, reqChannel>>
    /\ UNCHANGED <<delays, fails, connected, introWritten, reconfigured, slept>>

\* main.go:249-250
DispatchDone ==
    /\ cmd' = <<>>
    /\ arg' = <<>>
    /\ argChannel' = 0
    /\ cmdChannel' = 0
    /\ pc' = "hdr"

\* variant: the local connection is left open when reading the body fails
LocalConnAfterFetch_LeakOnReadErr(outcome) ==
    CASE outcome = "dial_err" -> "none"
      [] outcome = "read_err" -> "open"
      [] OTHER -> "closed"

\* main.go:313-317: no connection when the dial fails, else the deferred
\* conn.Close() has run by the time fetchMetricData returns
LocalConnAfterFetch(outcome) ==
    IF outcome = "dial_err" THEN "none" ELSE "closed"

\* main.go:233-240 with fetchMetricData, and the entry of sendMetricData
\* (main.go:273: no iteration for empty data)
Fetch(outcome, len) ==
    /\ pc = "fetch"
    /\ fetchErr' = outcome
    /\ localConn' = LocalConnAfterFetch(outcome)
    /\ reqChannel' = argChannel
    /\ data' = IF outcome \in FetchErrors THEN FallbackData ELSE [src |-> "body", len |-> len]
    /\ offset' = 0
    /\ sinceDeadline' = sinceDeadline + 1
    /\ IF data'.len > 0
         THEN /\ pc' = "send"
              /\ UNCHANGED <<cmd, arg, argChannel, cmdChannel>>
         ELSE DispatchDone
    /\ UNCHANGED <<reverseEnabled, reverseMaxConnRetry, attempt, reverseURL, result, conn, leaked>>
    /\ UNCHANGED <<hdr, wire, out, seen, lastRead, connects, owed, exitReason>>
    /\ UNCHANGED histVars

\* main.go:273-281: one iteration of sendMetricData's loop, and main.go:241-250
SendChunk(ok) ==
    /\ pc = "send"
    /\ LET buff == Chunk(data, offset, ChunkLen(data.len, offset))
           frame == buildFrame(hdr.channelID, buff)
       IN  IF ok
             THEN /\ out' = Append(out, frame)
                  /\ offset' = NextOffset(offset, frame)
                  /\ sinceDeadline' = sinceDeadline + 1
                  /\ IF offset' < data.len
                       THEN UNCHANGED <<pc, cmd, arg, argChannel, cmdChannel>>
                       ELSE DispatchDone
                  /\ UNCHANGED <<conn, wire, connects, exitReason, lastEvent>>
             ELSE /\ SessionExit("write")
                  /\ out' = out
    /\ UNCHANGED <<reverseEnabled, reverseMaxConnRetry, attempt, reverseURL, result, leaked>>
    /\ UNCHANGED <<hdr, data, fetchErr, reqChannel, seen, lastRead, owed, localConn>>
    /\ UNCHANGED <<delays, fails, connected, introWritten, reconfigured, slept>>

Next ==
    \/ StartDisabled
    \/ \E ok \in BOOLEAN : StartConfigure(ok)
    \/ \E ok \in BOOLEAN : Reconfigure(ok)
    \/ \E outcome \in {"dial_err", "intro_err", "ok"} : Connect(outcome)
    \/ Backoff
    \/ \E f \in BrokerFrames : BrokerSend(f)
    \/ \E k \in 0..headerLen : ReadHeader(k)
    \/ ReadMessage
    \/ \E outcome \in FetchErrors : Fetch(outcome, 0)
    \/ \E len \in BodyLens : Fetch("ok", len)
    \/ \E ok \in BOOLEAN : SendChunk(ok)

Spec == Init /\ [][Next]_vars

(***************************************************************************)
(* The frame codec on its own: buildFrame applied to a channel id and a   *)
(* payload, and readHeader applied to the six bytes it produced.  The      *)
(* channel id is held in reqChannel, the payload in data, the frame in    *)
(* out and the decoded header in hdr.                                      *)
(***************************************************************************)
\* 16-bit channel ids at the byte and mask boundaries
CodecChannels == {0, 1, 3, 7, 255, 256, 257, 32767, 32768, 32775, 65535}
\* payload lengths sendMetricData can hand to buildFrame
CodecLens == {0, 1, 2, 7, 255, 256, 65535 - headerLen - 1, 65535 - headerLen}

CodecInit ==
    /\ reverseEnabled = TRUE
    /\ reverseMaxConnRetry = -1
    /\ pc = "codec"
    /\ attempt = 1
    /\ reverseURL = "set"
    /\ result = "none"
    /\ conn = "open"
    /\ leaked = 0
    /\ cmd = <<>>
    /\ arg = <<>>
    /\ hdr = NoHeader
    /\ wire = <<>>
    /\ data \in {[src |-> "body", len |-> n] : n \in CodecLens}
    /\ offset = 0
    /\ out = <<>>
    /\ argChannel = 0
    /\ cmdChannel = 0
    /\ seen = NoSeen
    /\ lastRead = NoRead
    /\ connects = {}
    /\ owed = 0
    /\ localConn = "none"
    /\ fetchErr = "none"
    /\ reqChannel \in CodecChannels
    /\ sinceDeadline = 0
    /\ exitReason = "none"
    /\ delays = <<>>
    /\ fails = 0
    /\ connected = TRUE
    /\ introWritten = TRUE
    /\ reconfigured = FALSE
    /\ slept = FALSE
    /\ lastEvent = "none"

\* frame := buildFrame(channelID, buff)
CodecEncode ==
    /\ pc = "codec"
    /\ out' = <<buildFrame(reqChannel, Chunk(data, 0, data.len))>>
    /\ pc' = "framed"
    /\ UNCHANGED <<reverseEnabled, reverseMaxConnRetry, attempt, reverseURL, result,
                   conn, leaked>>
    /\ UNCHANGED <<cmd, arg, hdr, wire, data, offset, argChannel, cmdChannel, seen,
                   lastRead, connects, owed, localConn, fetchErr, reqChannel,
                   sinceDeadline, exitReason>>
    /\ UNCHANGED histVars

\* the peer reads the six header bytes of the frame with readHeader
CodecDecode ==
    /\ pc = "framed"
    /\ LET r == readHeader(out[1].header, headerLen)
       IN  /\ ~r.err
           /\ hdr' = r.hdr
           /\ lastRead' = [size |-> headerLen, got |-> headerLen, len |-> Len(r.data),
                           err |-> r.err]
    /\ pc' = "decoded"
    /\ UNCHANGED <<reverseEnabled, reverseMaxConnRetry, attempt, reverseURL, result,
                   conn, leaked>>
    /\ UNCHANGED <<cmd, arg, wire, data, offset, out, argChannel, cmdChannel, seen,
                   connects, owed, localConn, fetchErr, reqChannel, sinceDeadline,
                   exitReason>>
    /\ UNCHANGED histVars

CodecNext ==
    \/ CodecEncode
    \/ CodecDecode

CodecSpec == CodecInit /\ [][CodecNext]_vars

(***************************************************************************)
(* Properties.                                                             *)
(***************************************************************************)
\* the frames' payloads, in the order written, are positions 0 .. len-1
Tiles(frames, len) ==
    /\ Len(frames) >= 1
    /\ frames[1].payload.from = 0
    /\ \A i \in 1..(Len(frames) - 1) :
          frames[i + 1].payload.from = frames[i].payload.from + frames[i].payload.len
    /\ frames[Len(frames)].payload.from + frames[Len(frames)].payload.len = len

CeilDiv(a, b) == (a + b - 1) \div b

\* sendMetricData returned nil for the body of this iteration
BodyDelivered == pc = "hdr" /\ data.src = "body" /\ data.len >= 1

\* C1: for every body of length >= 1 that sendMetricData delivered without a
\* write error, the payloads of the frames written, concatenated in the
\* order written, are the body byte for byte.
C1_PayloadsAreTheBody == BodyDelivered => Tiles(out, data.len)

\* C2: the number of frames written for a body of length L is
\* ceil(L / 65529); every frame but the last carries 65529 bytes and the
\* last carries the rest (65529 -> one frame, 65530 -> 65529 + 1).
C2_FrameCountIsCeil ==
    BodyDelivered =>
        /\ Len(out) = CeilDiv(data.len, 65529)
        /\ \A i \in 1..Len(out) :
              out[i].payload.len =
                  IF i < Len(out) THEN 65529 ELSE data.len - 65529 * (Len(out) - 1)

\* the one frame a failed fetch is answered with: command bit 0, the
\* channel of the current frame, the two bytes {}
IsEmptyJsonFrame(frame, ch) ==
    /\ Uint16(frame.header) < 32768
    /\ Uint16(frame.header) = ch
    /\ Uint32(Drop(frame.header, 2)) = 2
    /\ frame.payload = [src |-> "fallback", from |-> 0, len |-> 2]

\* C3: a failure of the local fetcher never ends the session loop: exactly
\* one frame with command bit 0 and payload {} is written on the channel of
\* the current frame, cmd and arg are reset and the loop reads the next
\* header; the session ends only if that write fails.
C3_FetchFailureAnswered ==
    [][/\ (pc = "fetch" /\ fetchErr' \in {"dial_err", "write_err", "read_err"})
            => (pc' = "send" /\ conn' = "open" /\ exitReason' = "none" /\ out' = <<>>)
       /\ (pc = "send" /\ fetchErr \in {"dial_err", "write_err", "read_err"})
            => \/ /\ pc' = "hdr"
                  /\ conn' = "open"
                  /\ Len(out') = 1
                  /\ IsEmptyJsonFrame(out'[1], hdr.channelID)
                  /\ cmd' = <<>>
                  /\ arg' = <<>>
               \/ /\ exitReason' = "write"
                  /\ out' = <<>>]_vars

C3_Witness ==
    /\ pc = "hdr"
    /\ conn = "open"
    /\ fetchErr = "dial_err"
    /\ Len(out) = 1
    /\ hdr.channelID = 7
    /\ cmd = <<>>

\* C4: every response frame carries the channel id of the argument frame
\* whose bytes were forwarded to the local endpoint to produce it.
C4_ResponseOnRequestChannel ==
    \A i \in 1..Len(out) : Uint16(out[i].header) % 32768 = reqChannel

\* C5: a header declaring payload_len > 65529 ends the session at once: no
\* payload read follows it, no frame is written, the connection is closed.
C5_OversizeExits ==
    /\ pc = "msg" => hdr.payloadLen <= 65529
    /\ hdr.payloadLen > 65529 =>
          /\ exitReason = "oversize"
          /\ pc = "backoff"
          /\ conn = "closed"
          /\ out = <<>>
          /\ sinceDeadline = 0

C5_Witness ==
    /\ exitReason = "oversize"
    /\ hdr.payloadLen = 65530
    /\ conn = "closed"

\* a connect() may run now
AboutToDial == pc = "connect" \/ (pc = "loop" /\ attempt % 5 # 0 /\ reverseURL = "set")

\* C6: after any session exit the supervisor goes on with the backoff sleep
\* and then reconnects (after a reconfiguration if one is due) or ends with
\* an error; it never stops silently and never dials again without a sleep
\* since the previous dial.
C6_ExitThenBackoff ==
    /\ [](/\ exitReason # "none" =>
               (pc = "backoff" /\ result = "none" /\ conn = "closed" /\ ENABLED Backoff)
          /\ pc = "done" => result # "none"
          /\ (AboutToDial /\ (connected \/ fails > 0)) => slept
          /\ pc = "loop" => ENABLED (\E o \in {"dial_err", "ok"} : Connect(o))
                            \/ ENABLED (\E ok \in BOOLEAN : Reconfigure(ok)))
    /\ [][pc = "backoff" => (pc' = "loop" /\ slept' /\ Len(delays') = Len(delays) + 1)]_vars

C6_Witness ==
    /\ pc = "loop"
    /\ connected
    /\ fails = 0
    /\ slept
    /\ delays = <<2>>

\* C7: the k-th consecutive delay slept is the k-th table entry for k <= 7
\* and 60 s afterwards; when no connection has ever succeeded, the k-th
\* failed attempt is followed by the k-th delay.
C7_BackoffSequence ==
    /\ \A k \in 1..Len(delays) :
          delays[k] = IF k <= 7 THEN <<2, 4, 6, 8, 16, 32, 60>>[k] ELSE 60
    /\ (~connected /\ pc \in {"loop", "connect"}) => Len(delays) = fails
    /\ (~connected /\ pc = "backoff") => Len(delays) = fails - 1

C7_Witness ==
    /\ ~connected
    /\ fails = 9
    /\ delays = <<2, 4, 6, 8, 16, 32, 60, 60, 60>>

\* C8: when the first five connection attempts fail, the configurator is
\* called between the 5th failed dial and the 6th dial.
C8_ReconfigAfterFifthFailure ==
    (~connected /\ fails = 5 /\ AboutToDial) => reconfigured

\* C9: with reverse enabled, Start returns only a configurator error or an
\* exhausted-retries error raised on a failed connect; session exits never
\* make it return, and once an error is surfaced nothing else happens.
C9_OnlyTerminalErrors ==
    /\ [](/\ result \in {"none", "nil", "ConfigError", "ExhaustedRetries"}
          /\ reverseEnabled => result # "nil"
          /\ result = "ConfigError" => lastEvent = "config_err"
          /\ result = "ExhaustedRetries" => lastEvent \in {"dial_err", "intro_err"}
          /\ (connected /\ result # "none") => fails >= 3
          /\ result # "none" <=> pc = "done")
    /\ [][/\ result # "none" => result' = result
          /\ exitReason' # exitReason => result' = "none"]_vars

C9_Witness ==
    /\ connected
    /\ result = "ExhaustedRetries"
    /\ fails = 9

\* C10: with --reverse-max-conn-retry at -1 (the documented default) no run
\* of consecutive dial failures ends in the exhausted-retries error.
C10_UnboundedRetries ==
    reverseMaxConnRetry = -1 => result # "ExhaustedRetries"

\* C11: for every channel id below 32768 and every payload of at most 65529
\* bytes, reading the first six bytes of buildFrame(channel id, payload) with
\* readHeader gives back the channel id, isCommand false and the payload's
\* length, and the rest of the frame is the payload.
C11_FrameRoundTrip ==
    (pc = "decoded" /\ reqChannel < 32768 /\ data.len <= 65529) =>
        /\ hdr = [channelID |-> reqChannel, isCommand |-> FALSE, payloadLen |-> data.len]
        /\ Len(out[1].header) = 6
        /\ out[1].payload = [src |-> data.src, from |-> 0, len |-> data.len]

\* the largest channel id with the largest payload has been round-tripped,
\* and so has a channel id that fills only the low byte
C11_Witness ==
    /\ pc = "decoded"
    /\ reqChannel = 32767
    /\ data.len = 65529
    /\ hdr = [channelID |-> 32767, isCommand |-> FALSE, payloadLen |-> 65529]

\* C12: in every reachable state every frame the agent has written has the
\* command (high) bit of its first word clear, declares exactly the length of
\* the payload it carries, carries at most 65529 bytes and is at most 65535
\* bytes long, whatever the inbound frame's first word was.
C12_WrittenFramesWellFormed ==
    \A i \in 1..Len(out) :
        /\ Uint16(Take(out[i].header, 2)) < 32768
        /\ Uint32(Drop(out[i].header, 2)) = out[i].payload.len
        /\ out[i].payload.len <= 65529
        /\ Len(out[i].header) + out[i].payload.len <= 65535

\* a full-sized frame written in answer to an inbound frame whose high bit
\* was set
C12_Witness ==
    /\ hdr.isCommand
    /\ Len(out) >= 1
    /\ out[1].payload.len = 65529
    /\ Uint32(Drop(out[1].header, 2)) = 65529

\* C13: a read of n bytes from the broker connection either returns exactly
\* the n bytes that arrived or fails: when the underlying read delivered fewer
\* than n bytes the read reports an error instead of returning n bytes of
\* which some were never received.
C13_ShortReadFails ==
    /\ lastRead.got < lastRead.size => lastRead.err
    /\ ~lastRead.err => lastRead.len = lastRead.got

\* the iteration that stored the argument frame GET / HTTP/1.0 on channel 7
\* with the command c, stored from channel 7, in force has run to its end
S1Processed(c) ==
    /\ pc = "hdr"
    /\ exitReason = "none"
    /\ hdr = [channelID |-> 7, isCommand |-> FALSE, payloadLen |-> 14]
    /\ seen = [cmd |-> c, arg |-> GET_ROOT, cmdChannel |-> 7, argChannel |-> 7]

\* the session has answered with exactly one frame {channel 7, command bit
\* clear, length 7} carrying the 7 bytes of the body
S1Answered ==
    /\ fetchErr # "none"
    /\ (fetchErr = "ok" /\ data.len = 7) =>
           out = <<[header |-> <<0, 7, 0, 0, 0, 7>>,
                    payload |-> [src |-> "body", from |-> 0, len |-> 7]]>>

\* C14 as stated: a command frame on channel 7 of declared length 8 with the
\* payload "CONNECT " (trailing space), then the argument frame
\* "GET / HTTP/1.0" on channel 7, the local endpoint returning 7 bytes: the
\* session writes exactly one frame {channel 7, command bit clear, length 7}.
C14_S1AsStated ==
    S1Processed(<<67, 79, 78, 78, 69, 67, 84, 32>>) => S1Answered

\* C14 amended: the same with the 7-byte command payload "CONNECT" (declared
\* length 7): the iteration of the argument frame fetches, and with a 7-byte
\* body it writes exactly one frame {channel 7, command bit clear, length 7}.
C14_S1Connect ==
    S1Processed(<<67, 79, 78, 78, 69, 67, 84>>) => S1Answered

\* the 7-byte body of scenario S1 has been written as one frame
C14_Witness ==
    /\ S1Processed(<<67, 79, 78, 78, 69, 67, 84>>)
    /\ fetchErr = "ok"
    /\ data.len = 7
    /\ Len(out) = 1
    /\ cmd = <<>>
    /\ arg = <<>>

\* C15: after the unknown command PING and then the argument frame "x" have
\* been processed, no frame has been written, the session has not exited, and
\* the cmd and arg accumulators are cleared, so that neither can take part in
\* the handling of a later frame.
C15_UnknownCommandCleared ==
    (/\ pc = "hdr"
     /\ ~hdr.isCommand
     /\ seen.cmd = PING
     /\ seen.arg = ARG_X) =>
        /\ out = <<>>
        /\ fetchErr = "none"
        /\ exitReason = "none"
        /\ conn = "open"
        /\ cmd = <<>>
        /\ arg = <<>>

\* C16: every read from and write to the broker connection is issued right
\* after the deadline was armed: when the session is about to read a payload
\* or to write a frame, no blocking step (a broker read, a local fetch, an
\* earlier write) has run since the last arming.
C16_DeadlineArmedBeforeEachIO ==
    pc \in {"msg", "send"} => sinceDeadline = 0

\* C17 as stated: whenever the configurator has just run, at start or for a
\* reconfiguration triggered by attempt % 5 = 0, the attempt counter was set
\* to 1 before it ran.
C17_AttemptOneAtEveryInit ==
    lastEvent \in {"configured", "config_err"} => attempt = 1

\* C17 amended: the attempt counter is 1 when the configurator runs at start;
\* a reconfiguration in the restart loop runs with the counter at 5 or 10 and
\* leaves it as it is.
C17_ReconfigKeepsAttempt ==
    /\ [](pc = "start" => attempt = 1)
    /\ []((lastEvent \in {"configured", "config_err"} /\ ~reconfigured) => attempt = 1)
    /\ [][(pc = "loop" /\ lastEvent' \in {"configured", "config_err"}) =>
              (attempt \in {5, 10} /\ attempt' = attempt)]_vars

\* a reconfiguration has just succeeded and the dial that follows is the fifth
C17_Witness ==
    /\ reconfigured
    /\ lastEvent = "configured"
    /\ pc = "connect"
    /\ attempt = 5

\* C18: every successful connection establishment leaves the attempt counter
\* at 1 before the session loop runs, whatever it was at the dial, so the
\* backoff slept after a session exit is 2 seconds and the counter is 2 at
\* the dial that follows.
C18_ResetOnConnect ==
    /\ [](pc \in {"hdr", "msg", "fetch", "send"} => attempt = 1)
    /\ [](exitReason # "none" => attempt = 1)
    /\ [][lastEvent' = "connected" => attempt' = 1]_vars
    /\ [][(pc = "backoff" /\ exitReason # "none" /\ pc' # "backoff") =>
              (delays' = <<2>> /\ attempt' = 2 /\ pc' = "loop")]_vars

\* a session has exited in a run that also saw a failed dial, 2 seconds were
\* slept and the next dial is about to be made with the counter at 2
C18_Witness ==
    /\ pc = "loop"
    /\ lastEvent = "slept"
    /\ connected
    /\ fails = 0
    /\ leaked = 1
    /\ delays = <<2>>
    /\ attempt = 2

\* C19: when the command in force after a frame is stored is CLOSE, RESET or
\* SHUTDOWN, processing that frame clears cmd only: arg is left as it was, no
\* frame is written, the local fetcher is not invoked and the session does
\* not exit.
C19_CloseResetShutdownClearCmdOnly ==
    [][(pc = "msg" /\ seen'.cmd \in {CLOSE, RESET, SHUTDOWN}) =>
          /\ cmd' = <<>>
          /\ arg' = arg
          /\ argChannel' = argChannel
          /\ out' = <<>>
          /\ fetchErr' = "none"
          /\ pc' = "hdr"
          /\ conn' = "open"
          /\ exitReason' = "none"]_vars

\* a RESET command frame has been processed while an argument was stored:
\* cmd is empty, the argument is still there
C19_Witness ==
    /\ pc = "hdr"
    /\ hdr.isCommand
    /\ seen.cmd = RESET
    /\ seen.arg = ARG_X
    /\ cmd = <<>>
    /\ arg = ARG_X
    /\ out = <<>>
    /\ conn = "open"

\* C20: the local fetcher is invoked only in a loop iteration that received
\* an argument (non-command) frame while cmd is CONNECT: an iteration that
\* received a command frame never itself fetches or writes a response.
C20_FetchOnlyOnArgumentFrame ==
    (pc \in {"fetch", "send"} \/ fetchErr # "none" \/ out # <<>>) =>
        (~hdr.isCommand /\ seen.cmd = CONNECT)

\* C21: when requests on different channels interleave, every channel on
\* which a CONNECT command frame and then a non-empty argument frame have
\* been received gets a response on that channel unless the session exits:
\* at the end of the iteration that received the argument frame a frame has
\* been written on its channel.  (The local endpoint returning an empty body
\* is left aside here.)
C21_InterleavedRequestsAnswered ==
    (/\ pc = "hdr"
     /\ exitReason = "none"
     /\ owed # 0
     /\ ~(fetchErr = "ok" /\ data.len = 0)) =>
        \E i \in 1..Len(out) : Uint16(Take(out[i].header, 2)) = owed

\* C22: on every connection the introduction line is written after the dial
\* and before the first header read; when the dial or the introduction write
\* fails the session loop is not run on that connection, the attempt counter
\* is not reset, and the failure is followed by the backoff or, at the tenth
\* attempt, by the exhausted-retries return.
C22_IntroThenSession ==
    /\ [](pc \in {"hdr", "msg", "fetch", "send"} => (introWritten /\ conn = "open"))
    /\ [](lastRead # NoRead => introWritten)
    /\ [][(pc \in {"loop", "connect"} /\ lastEvent' \in {"dial_err", "intro_err"}) =>
              /\ attempt' = attempt
              /\ ~introWritten'
              /\ conn' # "open"
              /\ lastRead' = NoRead
              /\ pc' = IF attempt >= 10 THEN "done" ELSE "backoff"
              /\ pc' = "done" => result' = "ExhaustedRetries"]_vars
    /\ [][(pc = "backoff" /\ lastEvent \in {"dial_err", "intro_err"} /\ pc' # pc) =>
              (attempt' = attempt + 1 /\ pc' = "loop")]_vars

\* a reconnect after a session failed at the introduction write and waits
\* for the backoff with the counter where the dial found it
C22_Witness ==
    /\ lastEvent = "intro_err"
    /\ pc = "backoff"
    /\ connected
    /\ ~introWritten
    /\ attempt = 2
    /\ conn # "open"

\* C23: at most one broker connection is open at any time: every connection a
\* dial produced has been closed when the next dial is about to be made and
\* when Start has returned, whether the attempt ended in a session exit or in
\* a failed introduction write.
C23_ConnectionsClosed ==
    (AboutToDial \/ pc \in {"backoff", "done"}) => (conn # "open" /\ leaked = 0)

\* C24: a read of 0..65529 bytes whose bytes were all delivered succeeds and
\* does not end the session; in particular a frame that declares a payload
\* of 0 bytes is accepted and the loop goes on.
C24_AvailablePayloadAccepted ==
    (lastRead.size <= 65529 /\ lastRead.got = lastRead.size) =>
        (~lastRead.err /\ exitReason # "message")

\* C25: every CONNECT dispatch ends with at least one frame written on the
\* current channel or with a session exit on a write error, also when the
\* local endpoint succeeds with an empty body.
C25_EveryDispatchAnswered ==
    (pc = "hdr" /\ fetchErr # "none" /\ exitReason = "none") =>
        /\ Len(out) >= 1
        /\ \A i \in 1..Len(out) : Uint16(Take(out[i].header, 2)) = hdr.channelID

\* C26: a CONNECT dispatch runs to its end before the next header is read:
\* while a response is being written nothing is read from the broker and
\* every frame written belongs to that one response, the connection to the
\* local endpoint is closed before the first frame is written, and the frames
\* are written in increasing offset order.
C26_DispatchRunsToCompletion ==
    /\ []((pc = "send" \/ Len(out) >= 1) => localConn # "open")
    /\ [](\A i \in 1..Len(out) :
             /\ out[i].payload.src = data.src
             /\ Uint16(Take(out[i].header, 2)) = hdr.channelID
             /\ \A j \in 1..Len(out) :
                    i < j => out[i].payload.from < out[j].payload.from)
    /\ [][pc = "send" =>
              /\ hdr' = hdr
              /\ lastRead' = lastRead
              /\ data' = data
              /\ wire' = wire \/ exitReason' = "write"
              /\ Len(out') >= Len(out)
              /\ pc' \in {"send", "hdr", "backoff"}]_vars

\* a response of two frames has been written after a fetch that closed its
\* connection
C26_Witness ==
    /\ pc = "hdr"
    /\ Len(out) = 2
    /\ localConn = "closed"
    /\ out[1].payload.from = 0
    /\ out[2].payload.from > 0

\* C27: at every dial the attempt counter is between 1 and 10; it changes
\* only by the one increment at the end of a loop iteration and by the reset
\* after a successful connect; the backoff index min(attempt-1, 6) is in
\* 0..6, so the delay slept is an entry of the table; and a reconfiguration
\* in the loop happens only with the counter at 5 or 10.
C27_AttemptInRange ==
    /\ []((pc = "connect" \/ (pc = "loop" /\ attempt % 5 # 0)) =>
             (1 <= attempt /\ attempt <= 10))
    /\ [](pc = "backoff" => (0 <= attempt - 1 /\ attempt - 1 <= 9))
    /\ []((reconfigured /\ lastEvent \in {"configured", "config_err"}) =>
             attempt \in {5, 10})
    /\ [][attempt' # attempt =>
              \/ pc = "backoff" /\ pc' = "loop" /\ attempt' = attempt + 1
              \/ lastEvent' = "connected" /\ attempt' = 1]_vars
    /\ [][(pc # "loop" /\ pc' = "loop") =>
              (pc \in {"start", "backoff"} /\ (pc = "backoff" => attempt' = attempt + 1))]_vars
    /\ [][(pc = "backoff" /\ pc' = "loop") =>
              /\ Len(delays') = Len(delays) + 1
              /\ delays'[Len(delays')] \in {2, 4, 6, 8, 16, 32, 60}]_vars

\* the loop has reconfigured with the counter at 10 and is about to make the
\* tenth dial
C27_Witness ==
    /\ pc = "connect"
    /\ reconfigured
    /\ lastEvent = "configured"
    /\ attempt = 10
    /\ fails = 9

(***************************************************************************)
(* Start with a configurator that always succeeds and a broker that can   *)
(* never be connected to.  Start's goroutine is not blocked for ever by    *)
(* any of its steps (the dial has a timeout, the sleep is finite), hence   *)
(* the weak fairness on its steps.                                         *)
(***************************************************************************)
ExhaustInit == Init /\ reverseEnabled

ExhaustNext ==
    \/ StartConfigure(TRUE)
    \/ Reconfigure(TRUE)
    \/ \E outcome \in {"dial_err", "intro_err"} : Connect(outcome)
    \/ Backoff

ExhaustSpec == ExhaustInit /\ [][ExhaustNext]_vars /\ WF_vars(ExhaustNext)

\* C28: when the configurator always succeeds and every dial attempt fails
\* from the start, Start eventually returns the exhausted-retries error, at
\* the tenth consecutive failed attempt and after nine sleeps, and neither
\* dials nor sleeps after that.
C28_TerminatesAtTenthFailure ==
    /\ <>(pc = "done" /\ result = "ExhaustedRetries" /\ fails = 10 /\ Len(delays) = 9)
    /\ [](result # "none" =>
             (result = "ExhaustedRetries" /\ pc = "done" /\ fails = 10 /\ Len(delays) = 9))
    /\ [][pc = "done" => (pc' = "done" /\ fails' = fails /\ delays' = delays)]_vars

\* Start has returned the error after ten failed attempts and nine sleeps
C28_Witness ==
    /\ pc = "done"
    /\ result = "ExhaustedRetries"
    /\ ~connected
    /\ fails = 10
    /\ delays = <<2, 4, 6, 8, 16, 32, 60, 60, 60>>

============================================================================
